---- MODULE Spec2Model ----
(***************************************************************************)
(* RecipeSnap: the workflow controller (RecipeSnap.js), the upload         *)
(* component with its analysis call (ImageUpload, in RecipesList.js) and   *)
(* the ingredient editor (IngredientsList.js), as one state machine.       *)
(*                                                                         *)
(* JavaScript runs every handler to completion, so each action below is    *)
(* one handler (or one continuation of an async function after its await)  *)
(* followed by React's re-render, which mounts and unmounts the child      *)
(* components according to the controller's new state.                     *)
(*                                                                         *)
(* Strings that the code only passes around are TLA+ strings.  Ingredient  *)
(* names are sequences of one-character strings, so that trim() can be     *)
(* computed.  A message built by a template literal is the sequence of its *)
(* parts.  null is the empty sequence where the code tests truthiness only.*)
(***************************************************************************)
EXTENDS Integers, Sequences, FiniteSets, TLC

VARIABLES
    ingredients,          \* RecipeSnap: useState([])
    recipes,              \* RecipeSnap: useState([])
    loading,              \* RecipeSnap: useState(false)
    error,                \* RecipeSnap: useState(null)
    currentStep,          \* RecipeSnap: useState('upload')
    timers,               \* pending setTimeout callbacks, oldest first
    uploadedImage,        \* ImageUpload: useState(null)
    imagePreview,         \* ImageUpload: useState(null)
    readers,              \* ImageUpload: FileReaders whose onload is pending
    inflight,             \* axios.post calls awaiting their outcome
    editableIngredients,  \* IngredientsList: useState(ingredients)
    last,                 \* history: the handler that ran last, what it called
    stoppedAtIngredients, \* history: last payload with recipes had none
    loaded                \* history: a result's ingredients were loaded and
                          \*          resetApp has not run since

vars == <<ingredients, recipes, loading, error, currentStep, timers,
          uploadedImage, imagePreview, readers, inflight,
          editableIngredients, last, stoppedAtIngredients, loaded>>

----------------------------------------------------------------------------
(* Bounds of the model *)

MaxInFlight == 2

MaxTimers == 2

----------------------------------------------------------------------------
(* Values *)

Tomato == <<"t">>

Onion == <<"o">>

Salt == <<"s">>

NoError == <<>>

NoFile == "null"

NoPreview == <<>>

\* reader.readAsDataURL(file): the data URL of the file's content.
DataURL(file) == <<"data:", file>>

Files == {"f1", "f2"}

IngredientLists == {<<>>, <<Tomato, Onion>>, <<Onion>>}

RecipeLists == {<<>>, <<"Soup">>, <<"Salad", "Soup">>}

AnalysisResults == [ingredients : IngredientLists, recipes : RecipeLists]

TimeoutMessage == <<"Request timed out. Please try again with a smaller image.">>

ConnectMessage == <<"Unable to connect to server. Please check if the backend is running.">>

NoDataMessage == <<"No data received from server">>

NoFileMessage == <<"Please select an image first">>

----------------------------------------------------------------------------
(* What the awaited axios.post can reject with.  A value that may be       *)
(* undefined is a sequence: <<>> for undefined, <<s>> for the string s.    *)
(* response.data is "null" (the body is the JSON literal null), "text" (a  *)
(* body that is no JSON object, the empty body included: a string, whose   *)
(* .detail is undefined) or "object".                                      *)

Undefined == <<>>

NoResponse == [present |-> FALSE, data |-> "undefined", detail |-> Undefined,
               statusText |-> ""]

Responses ==
    {[present |-> TRUE, data |-> "null", detail |-> Undefined,
      statusText |-> "Internal Server Error"],
     [present |-> TRUE, data |-> "text", detail |-> Undefined,
      statusText |-> "Internal Server Error"]}
    \cup [present : {TRUE}, data : {"object"},
          detail : {Undefined, <<"">>, <<"Invalid image file">>},
          statusText : {"Internal Server Error"}]

Failures == [code : {"ECONNABORTED", "other"},
             response : Responses \cup {NoResponse},
             request : BOOLEAN,
             message : {"Network Error"}]

\* JavaScript truthiness of a possibly undefined string.
Truthy(v) == v /= Undefined /\ v /= <<"">>

\* error.response.data.detail: reading a property of null throws a TypeError.
DetailThrows(response) == response.data = "null"

\* error.response.data.detail || error.response.statusText
DetailOrStatusText(response) ==
    IF Truthy(response.detail) THEN response.detail[1] ELSE response.statusText

\* Whether the catch block of analyzeImage itself throws on this failure.
CatchThrows(f) ==
    /\ f.code /= "ECONNABORTED"
    /\ f.response.present
    /\ DetailThrows(f.response)

\* The message the catch block of analyzeImage passes to onError.
CatchMessage(f) ==
    IF f.code = "ECONNABORTED" THEN TimeoutMessage
    ELSE IF f.response.present
         THEN <<"Server error: ", DetailOrStatusText(f.response)>>
    ELSE IF f.request THEN ConnectMessage
    ELSE <<"Error: ", f.message>>

----------------------------------------------------------------------------
(* String.prototype.trim on a sequence of characters *)

IsSpace(ch) == ch = " "

RECURSIVE TrimStart(_)
TrimStart(s) ==
    IF s /= <<>> /\ IsSpace(Head(s)) THEN TrimStart(Tail(s)) ELSE s

RECURSIVE TrimEnd(_)
TrimEnd(s) ==
    IF s /= <<>> /\ IsSpace(s[Len(s)])
    THEN TrimEnd(SubSeq(s, 1, Len(s) - 1)) ELSE s

Trim(s) == TrimEnd(TrimStart(s))

\* Array.prototype.includes
Includes(list, x) == \E i \in 1..Len(list) : list[i] = x

\* editableIngredients.filter((_, i) => i !== index), index counted from 0
FilterOut(list, index) ==
    [j \in 1..(Len(list) - 1) |-> IF j <= index THEN list[j] ELSE list[j + 1]]

\* What the user can have typed into the custom ingredient field.
CustomInputs == {<<>>, <<" ">>, Salt, <<" ", "s", " ">>, Tomato}

----------------------------------------------------------------------------
(* The controller's state as one value, and its handlers as functions of it *)

Ctrl == [ingredients |-> ingredients, recipes |-> recipes, loading |-> loading,
         error |-> error, currentStep |-> currentStep, timers |-> timers]

\* handleImageAnalysis without its test of ingredients.length.
handleImageAnalysis_NoLengthTest(c, analysisResult) ==
    [c EXCEPT !.ingredients = analysisResult.ingredients,
              !.recipes = analysisResult.recipes,
              !.currentStep = "ingredients",
              !.timers = IF Len(analysisResult.recipes) > 0
                         THEN Append(@, "live") ELSE @]

\* handleImageAnalysis adding the received ingredients to the ones it holds.
handleImageAnalysis_Merges(c, analysisResult) ==
    LET c1 == [c EXCEPT !.ingredients = @ \o analysisResult.ingredients,
                        !.recipes = analysisResult.recipes]
    IN  IF Len(analysisResult.ingredients) > 0
        THEN [c1 EXCEPT !.currentStep = "ingredients",
                        !.timers = IF Len(analysisResult.recipes) > 0
                                   THEN Append(@, "live") ELSE @]
        ELSE c1

handleImageAnalysis(c, analysisResult) ==
    LET c1 == [c EXCEPT !.ingredients = analysisResult.ingredients,
                        !.recipes = analysisResult.recipes]
    IN  IF Len(analysisResult.ingredients) > 0
        THEN [c1 EXCEPT !.currentStep = "ingredients",
                        !.timers = IF Len(analysisResult.recipes) > 0
                                   THEN Append(@, "live") ELSE @]
        ELSE c1

\* handleError going back to the upload step as resetApp does.
handleError_Resets(c, errorMessage) ==
    [c EXCEPT !.error = errorMessage, !.loading = FALSE,
              !.ingredients = <<>>, !.recipes = <<>>, !.currentStep = "upload"]

handleError(c, errorMessage) ==
    [c EXCEPT !.error = errorMessage, !.loading = FALSE]

resetApp(c) ==
    [c EXCEPT !.ingredients = <<>>, !.recipes = <<>>, !.error = NoError,
              !.currentStep = "upload"]

\* The callback of setTimeout(() => setCurrentStep('recipes'), 1000).
timerCallback(c) == [c EXCEPT !.currentStep = "recipes"]

\* onClick={() => setError(null)}
dismissError(c) == [c EXCEPT !.error = NoError]

\* setLoading(true) in analyzeImage
setLoadingTrue(c) == [c EXCEPT !.loading = TRUE]

\* analyzeImage without its finally block.
analyzeFinally_Missing(c) == c

\* finally { setLoading(false) } in analyzeImage
analyzeFinally(c) == [c EXCEPT !.loading = FALSE]

\* The continuation of analyzeImage after the awaited post resolved: the try
\* block from "if (response.data)" on, then the finally block.
analyzeImageResolved(c, response) ==
    IF response.hasData
    THEN [c |-> analyzeFinally(handleImageAnalysis(c, response.data)),
          calls |-> <<"onAnalysisComplete">>]
    ELSE [c |-> analyzeFinally(handleError(c, NoDataMessage)),
          calls |-> <<"onError">>]

\* The continuation of analyzeImage after the awaited post rejected: the catch
\* block, then the finally block (which also runs when the catch block throws).
analyzeImageRejected(c, f) ==
    IF CatchThrows(f)
    THEN [c |-> analyzeFinally(c), calls |-> <<>>]
    ELSE [c |-> analyzeFinally(handleError(c, CatchMessage(f))),
          calls |-> <<"onError">>]

\* analyzeImage without its test of uploadedImage.
analyzeImageStart_NoFileTest(c, file) ==
    [c |-> setLoadingTrue(c), calls |-> <<"axios.post">>]

\* analyzeImage up to the await.
analyzeImageStart(c, file) ==
    IF file = NoFile
    THEN [c |-> handleError(c, NoFileMessage), calls |-> <<"onError">>]
    ELSE [c |-> setLoadingTrue(c), calls |-> <<"axios.post">>]

----------------------------------------------------------------------------
(* Rendering: which child components RecipeSnap mounts *)

UploadShown(c) == c.currentStep = "upload"

ListShown(c) ==
    /\ c.currentStep \in {"ingredients", "recipes"}
    /\ Len(c.ingredients) > 0

RecipesShown(c) == c.currentStep = "recipes" /\ Len(c.recipes) > 0

\* The Start Over button rendered in every step.
ResetShown_Always(c) == TRUE

ResetShown(c) == c.currentStep /= "upload"

\* ImageUpload right after it is mounted; an unmounted ImageUpload is kept in
\* this state too (its state is gone, and a pending FileReader of it sets the
\* state of an instance that no longer exists).
FreshUpload == [uploadedImage |-> NoFile, imagePreview |-> NoPreview,
                readers |-> {}]

Upload == [uploadedImage |-> uploadedImage, imagePreview |-> imagePreview,
           readers |-> readers]

\* The state after a handler left the controller in c, ImageUpload in up and
\* IngredientsList's copy in ed: a component that stays mounted keeps its
\* state, one that is mounted now starts from its useState initial values.
Render(c, up, ed) ==
    /\ ingredients' = c.ingredients
    /\ recipes' = c.recipes
    /\ loading' = c.loading
    /\ error' = c.error
    /\ currentStep' = c.currentStep
    /\ timers' = c.timers
    /\ LET u == IF UploadShown(c) /\ UploadShown(Ctrl) THEN up ELSE FreshUpload
       IN  /\ uploadedImage' = u.uploadedImage
           /\ imagePreview' = u.imagePreview
           /\ readers' = u.readers
    /\ editableIngredients' =
           IF ~ListShown(c) THEN <<>>
           ELSE IF ListShown(Ctrl) THEN ed
           ELSE c.ingredients

Event(op, calls) == [op |-> op, calls |-> calls]

----------------------------------------------------------------------------
(* What the server can answer with *)

EmptyResult == [ingredients |-> <<>>, recipes |-> <<>>]

ResponsesOK == [hasData : {TRUE}, data : AnalysisResults]
                   \cup {[hasData |-> FALSE, data |-> EmptyResult]}

----------------------------------------------------------------------------
(* Initial state: RecipeSnap mounted, ImageUpload mounted under it *)

Init ==
    /\ ingredients = <<>>
    /\ recipes = <<>>
    /\ loading = FALSE
    /\ error = NoError
    /\ currentStep = "upload"
    /\ timers = <<>>
    /\ uploadedImage = NoFile
    /\ imagePreview = NoPreview
    /\ readers = {}
    /\ inflight = 0
    /\ editableIngredients = <<>>
    /\ last = Event("init", <<>>)
    /\ stoppedAtIngredients = FALSE
    /\ loaded = FALSE

----------------------------------------------------------------------------
(* ImageUpload *)

\* onDrop: the dropzone is rendered only while there is no preview.
OnDrop(file) ==
    /\ UploadShown(Ctrl)
    /\ imagePreview = NoPreview
    /\ file \notin readers
    /\ Render(Ctrl, [Upload EXCEPT !.uploadedImage = file,
                                   !.readers = @ \cup {file}],
              editableIngredients)
    /\ last' = Event("onDrop", <<>>)
    /\ UNCHANGED <<inflight, stoppedAtIngredients, loaded>>

\* reader.onload: the preview of the file this reader was started on.
ReaderOnLoad(file) ==
    /\ file \in readers
    /\ Render(Ctrl, [Upload EXCEPT !.imagePreview = DataURL(file),
                                   !.readers = @ \ {file}],
              editableIngredients)
    /\ last' = Event("reader.onload", <<>>)
    /\ UNCHANGED <<inflight, stoppedAtIngredients, loaded>>

\* removeImage: both of its buttons are rendered only with a preview.
RemoveImage ==
    /\ UploadShown(Ctrl)
    /\ imagePreview /= NoPreview
    /\ Render(Ctrl, [Upload EXCEPT !.uploadedImage = NoFile,
                                   !.imagePreview = NoPreview],
              editableIngredients)
    /\ last' = Event("removeImage", <<>>)
    /\ UNCHANGED <<inflight, stoppedAtIngredients, loaded>>

\* analyzeImage up to its await: the button is rendered only with a preview.
AnalyzeImage ==
    /\ UploadShown(Ctrl)
    /\ imagePreview /= NoPreview
    /\ LET a == analyzeImageStart(Ctrl, uploadedImage)
       IN  /\ Render(a.c, Upload, editableIngredients)
           /\ last' = Event("analyzeImage", a.calls)
           /\ IF a.calls = <<"axios.post">>
              THEN inflight < MaxInFlight /\ inflight' = inflight + 1
              ELSE inflight' = inflight
    /\ UNCHANGED <<stoppedAtIngredients, loaded>>

\* The post of one pending analyzeImage resolves.
Resolve(response) ==
    /\ inflight > 0
    /\ LET a == analyzeImageResolved(Ctrl, response)
       IN  /\ Len(a.c.timers) <= MaxTimers
           /\ Render(a.c, Upload, editableIngredients)
           /\ last' = Event("resolved", a.calls)
    /\ inflight' = inflight - 1
    /\ stoppedAtIngredients' =
           IF ~response.hasData THEN stoppedAtIngredients
           ELSE IF Len(response.data.recipes) > 0 THEN FALSE
           ELSE IF Len(response.data.ingredients) > 0 THEN TRUE
           ELSE stoppedAtIngredients
    /\ loaded' = (loaded \/ (response.hasData
                                /\ Len(response.data.ingredients) > 0))

\* The post of one pending analyzeImage rejects (the 60 s timeout included).
Reject(f) ==
    /\ inflight > 0
    /\ LET a == analyzeImageRejected(Ctrl, f)
       IN  /\ Render(a.c, Upload, editableIngredients)
           /\ last' = Event("rejected", a.calls)
    /\ inflight' = inflight - 1
    /\ UNCHANGED <<stoppedAtIngredients, loaded>>

----------------------------------------------------------------------------
(* RecipeSnap *)

\* The oldest pending timeout fires (all have the same delay).  The entry says
\* whether resetApp ran since the timeout was set: "stale" or "live".
TimerFires ==
    /\ timers /= <<>>
    /\ Render([timerCallback(Ctrl) EXCEPT !.timers = Tail(@)], Upload,
              editableIngredients)
    /\ last' = Event("timer", <<>>)
    /\ UNCHANGED <<inflight, stoppedAtIngredients, loaded>>

\* Start Over.  resetApp clears no timeout: the pending ones are only marked.
ResetApp ==
    /\ ResetShown(Ctrl)
    /\ Render([resetApp(Ctrl) EXCEPT !.timers = [i \in DOMAIN @ |-> "stale"]],
              Upload, editableIngredients)
    /\ last' = Event("resetApp", <<>>)
    /\ loaded' = FALSE
    /\ UNCHANGED <<inflight, stoppedAtIngredients>>

\* The dismiss button of the error display, rendered only with an error.
DismissError ==
    /\ error /= NoError
    /\ Render(dismissError(Ctrl), Upload, editableIngredients)
    /\ last' = Event("dismissError", <<>>)
    /\ UNCHANGED <<inflight, stoppedAtIngredients, loaded>>

----------------------------------------------------------------------------
(* IngredientsList: its buttons and its input are rendered only while      *)
(* editableIngredients is not empty.                                       *)

removeIngredient(list, index) == FilterOut(list, index)

\* An update that also drops the recipes made for the earlier ingredients.
onIngredientsUpdate_DropsRecipes(c, updated) ==
    [c EXCEPT !.ingredients = updated, !.recipes = <<>>]

\* onIngredientsUpdate={setIngredients}: what an edit does to the controller.
onIngredientsUpdate(c, updated) == [c EXCEPT !.ingredients = updated]

\* addCustomIngredient appending the text as typed.
addCustomIngredient_NoTrim(list, customIngredient) ==
    IF Trim(customIngredient) /= <<>> /\ ~Includes(list, Trim(customIngredient))
    THEN Append(list, customIngredient)
    ELSE list

\* addCustomIngredient without its includes test.
addCustomIngredient_NoIncludes(list, customIngredient) ==
    IF Trim(customIngredient) /= <<>>
    THEN Append(list, Trim(customIngredient))
    ELSE list

addCustomIngredient(list, customIngredient) ==
    IF Trim(customIngredient) /= <<>> /\ ~Includes(list, Trim(customIngredient))
    THEN Append(list, Trim(customIngredient))
    ELSE list

RemoveIngredient(index) ==
    /\ ListShown(Ctrl)
    /\ index \in 0..(Len(editableIngredients) - 1)
    /\ LET updated == removeIngredient(editableIngredients, index)
       IN  Render(onIngredientsUpdate(Ctrl, updated), Upload, updated)
    /\ last' = Event("removeIngredient", <<"onIngredientsUpdate">>)
    /\ UNCHANGED <<inflight, stoppedAtIngredients, loaded>>

AddCustomIngredient(customIngredient) ==
    /\ ListShown(Ctrl)
    /\ Len(editableIngredients) > 0
    /\ LET updated == addCustomIngredient(editableIngredients, customIngredient)
       IN  IF updated /= editableIngredients
           THEN /\ Render(onIngredientsUpdate(Ctrl, updated), Upload, updated)
                /\ last' = Event("addCustomIngredient",
                                 <<"onIngredientsUpdate">>)
           ELSE /\ Render(Ctrl, Upload, editableIngredients)
                /\ last' = Event("addCustomIngredient", <<>>)
    /\ UNCHANGED <<inflight, stoppedAtIngredients, loaded>>

----------------------------------------------------------------------------

Next ==
    \/ \E file \in Files : OnDrop(file)
    \/ \E file \in Files : ReaderOnLoad(file)
    \/ RemoveImage
    \/ AnalyzeImage
    \/ \E response \in ResponsesOK : Resolve(response)
    \/ \E f \in Failures : Reject(f)
    \/ TimerFires
    \/ ResetApp
    \/ DismissError
    \/ \E index \in 0..(Len(editableIngredients) - 1) : RemoveIngredient(index)
    \/ \E customIngredient \in CustomInputs : AddCustomIngredient(customIngredient)

Spec == Init /\ [][Next]_vars

\* The pending post always settles: axios rejects it itself after its 60 s
\* timeout when nothing else has settled it.
Settle ==
    \/ \E response \in ResponsesOK : Resolve(response)
    \/ \E f \in Failures : Reject(f)

FairSpec == Spec /\ WF_vars(Settle)

----------------------------------------------------------------------------
(* Claims *)

Delivered == last.op \in {"resolved", "rejected"}

ResultHandled == last.op = "resolved" /\ last.calls = <<"onAnalysisComplete">>

\* C1: a timeout set before resetApp ran never changes the step when it fires
\* after it, so the step stays 'upload' after a Reset until a new result with
\* ingredients is handled.
C1_ResetCancelsTimer ==
    [][(timers /= <<>> /\ Head(timers) = "stale" /\ last'.op = "timer")
           => currentStep' = currentStep]_vars

\* C2: the state right after resetApp is the initial state of the controller:
\* step 'upload', no ingredients, no recipes, no error, not loading.
C2_ResetGivesInitialState ==
    last.op = "resetApp" =>
        /\ currentStep = "upload"
        /\ ingredients = <<>>
        /\ recipes = <<>>
        /\ error = NoError
        /\ loading = FALSE

\* C3: the step becomes 'recipes' only from 'ingredients', and becomes
\* 'ingredients' only by handling a result whose ingredient list is not empty.
C3_StepOrder ==
    [][/\ (currentStep' = "recipes" /\ currentStep /= "recipes")
              => currentStep = "ingredients"
       /\ (currentStep' = "ingredients" /\ currentStep /= "ingredients")
              => (ResultHandled' /\ ingredients' /= <<>>)]_vars

\* C4: handling a result whose ingredient list is empty leaves the step as it
\* was and sets no timeout, whatever recipes the result carries.
C4_EmptyIngredientsNoAdvance ==
    [][(ResultHandled' /\ ingredients' = <<>>)
           => (currentStep' = currentStep /\ timers' = timers)]_vars

\* C4's case: such a result, with recipes, was handled in the upload step.
C4_Witness ==
    /\ ResultHandled
    /\ ingredients = <<>>
    /\ recipes /= <<>>
    /\ currentStep = "upload"

\* C5: right after a result with ingredients and no recipes is handled the
\* step is 'ingredients' and the list shown is the received one, and from then
\* on the step is not 'recipes' until a result with recipes is handled.
C5_StopsAtIngredients ==
    /\ (ResultHandled /\ ingredients /= <<>> /\ recipes = <<>>)
           => (currentStep = "ingredients" /\ editableIngredients = ingredients)
    /\ stoppedAtIngredients => currentStep /= "recipes"

\* C6: at most one analysis request is awaiting its outcome.
C6_OneInFlight == inflight <= 1

\* C7: a handler that reports a failure through onError sets an error message
\* and leaves the step, the ingredients and the recipes as they were.
C7_FailureLeavesData ==
    [][last'.calls = <<"onError">>
           => /\ error' /= NoError
              /\ currentStep' = currentStep
              /\ ingredients' = ingredients
              /\ recipes' = recipes]_vars

\* C7's case: a rejected request was reported while ingredients and recipes
\* of an earlier result were on display.
C7_Witness ==
    /\ last.op = "rejected"
    /\ last.calls = <<"onError">>
    /\ error /= NoError
    /\ currentStep = "recipes"
    /\ ingredients /= <<>>
    /\ recipes /= <<>>

\* C8: loading is false right after the outcome of a request was delivered, on
\* every path, and a loading flag that is set is eventually cleared.
C8_BusyCleared ==
    /\ [](Delivered => loading = FALSE)
    /\ (loading = TRUE) ~> (loading = FALSE)

\* C8's case: the request was rejected and the catch block itself threw.
C8_Witness ==
    /\ last.op = "rejected"
    /\ last.calls = <<>>
    /\ loading = FALSE

\* C9: every settled request has called exactly one of onAnalysisComplete and
\* onError, exactly once.
C9_ExactlyOneOutcome ==
    Delivered => last.calls \in {<<"onAnalysisComplete">>, <<"onError">>}

\* The message C10 states for a failure: "present" read as JavaScript reads it
\* in detail || statusText, the raw message with the code's "Error: " before it.
C10_StatedMessage(f) ==
    CASE f.code = "ECONNABORTED" -> TimeoutMessage
      [] f.code /= "ECONNABORTED" /\ f.response.present ->
             <<"Server error: ",
               IF f.response.detail \notin {Undefined, <<"">>}
               THEN f.response.detail[1] ELSE f.response.statusText>>
      [] f.code /= "ECONNABORTED" /\ ~f.response.present /\ f.request ->
             ConnectMessage
      [] OTHER -> <<"Error: ", f.message>>

\* C10: a rejected request is reported with the message of the first of
\* timeout, server response, request without response, other that applies.
C10_FailureClassification ==
    [][\A f \in Failures :
           Reject(f) => /\ last'.calls = <<"onError">>
                        /\ error' = C10_StatedMessage(f)]_vars

----------------------------------------------------------------------------
(* Claims about the error display, the payload and the ingredient edits *)

Edited == last.op \in {"removeIngredient", "addCustomIngredient"}

Started == last = Event("analyzeImage", <<"axios.post">>)

\* t is s without its leading and trailing spaces.
IsTrimOf(t, s) ==
    \E i \in 1..(Len(s) + 1), j \in 0..Len(s) :
        /\ t = SubSeq(s, i, j)
        /\ \A k \in 1..(i - 1) : s[k] = " "
        /\ \A k \in (j + 1)..Len(s) : s[k] = " "
        /\ t /= <<>> => (t[1] /= " " /\ t[Len(t)] /= " ")

\* list without the entry at index (counted from 0).
Without(list, index) ==
    SubSeq(list, 1, index) \o SubSeq(list, index + 2, Len(list))

NoDuplicates(list) ==
    \A i, j \in 1..Len(list) : i /= j => list[i] /= list[j]

\* C11: no error message is displayed right after an analysis was started with
\* a file selected, nor right after the result of an analysis was handled.
C11_ErrorClearedByNewOperation ==
    (Started \/ ResultHandled) => error = NoError

\* C12: handling a result sets the ingredients and the recipes to those of the
\* result, whatever the lists held before.
C12_ResultReplacesLists ==
    [][\A response \in ResponsesOK :
           (Resolve(response) /\ response.hasData)
               => /\ ingredients' = response.data.ingredients
                  /\ recipes' = response.data.recipes]_vars

\* C12's case: a result without ingredients replaced the lists of an earlier
\* result (the step is still 'ingredients') by its own.
C12_Witness ==
    /\ ResultHandled
    /\ currentStep = "ingredients"
    /\ ingredients = <<>>
    /\ recipes = <<"Soup">>

\* C13: once a result's ingredients are loaded, and until resetApp runs, the
\* controller's ingredients change only by removeIngredient and
\* addCustomIngredient.
C13_OnlyEditsChangeLoadedList ==
    [][(loaded /\ last'.op /= "resetApp" /\ ingredients' /= ingredients)
           => Edited']_vars

\* C14: an edit leaves the step, the recipes, the error and loading as they
\* were and posts nothing.
C14_EditChangesOnlyIngredients ==
    [][Edited'
           => /\ currentStep' = currentStep
              /\ recipes' = recipes
              /\ error' = error
              /\ loading' = loading
              /\ inflight' = inflight
              /\ last'.calls \in {<<>>, <<"onIngredientsUpdate">>}]_vars

\* C14's case: an ingredient was added while recipes were on display.
C14_Witness ==
    /\ last = Event("addCustomIngredient", <<"onIngredientsUpdate">>)
    /\ currentStep = "recipes"
    /\ recipes /= <<>>
    /\ Len(ingredients) = 3

\* C15: adding a text that has a character other than a space and whose
\* trimmed form is not in the list appends that trimmed form; removing index i
\* leaves the other entries in their order.
C15_AddAppendsRemoveDeletes ==
    [][/\ \A s \in CustomInputs :
              (/\ AddCustomIngredient(s)
               /\ \E k \in 1..Len(s) : s[k] /= " "
               /\ \A i \in 1..Len(editableIngredients) :
                      ~IsTrimOf(editableIngredients[i], s))
                  => /\ Len(ingredients') = Len(editableIngredients) + 1
                     /\ SubSeq(ingredients', 1, Len(editableIngredients))
                            = editableIngredients
                     /\ IsTrimOf(ingredients'[Len(ingredients')], s)
                     /\ editableIngredients' = ingredients'
       /\ \A index \in 0..(Len(editableIngredients) - 1) :
              RemoveIngredient(index)
                  => /\ ingredients' = Without(editableIngredients, index)
                     /\ editableIngredients' = ingredients']_vars

\* C15's case: [tomato, onion] plus " s " (salt), then index 0 removed.
C15_Witness ==
    /\ last.op = "removeIngredient"
    /\ ingredients = <<Onion, Salt>>
    /\ editableIngredients = <<Onion, Salt>>

\* C16: an add of a text that trims to nothing or to an entry of the list
\* changes no list, and no list ever holds a string twice.
C16_AddRejectsDuplicates ==
    /\ [](NoDuplicates(ingredients) /\ NoDuplicates(editableIngredients))
    /\ [][\A s \in CustomInputs :
              (/\ AddCustomIngredient(s)
               /\ \/ \A k \in 1..Len(s) : s[k] = " "
                  \/ \E i \in 1..Len(editableIngredients) :
                         IsTrimOf(editableIngredients[i], s))
                  => /\ ingredients' = ingredients
                     /\ editableIngredients' = editableIngredients]_vars

\* C16's case: an add was refused on a list that holds all three names.
C16_Witness ==
    /\ last = Event("addCustomIngredient", <<>>)
    /\ Len(editableIngredients) = 3

\* C17: after every edit the count on display is the length of the
\* controller's list, and no entry is followed by an equal one.
C17_CountIsLength ==
    (Edited /\ ListShown(Ctrl)) =>
        /\ Len(editableIngredients) = Len(ingredients)
        /\ \A i \in 1..(Len(editableIngredients) - 1) :
               editableIngredients[i] /= editableIngredients[i + 1]

\* C18: only resetApp takes the step away from 'recipes'.
C18_RecipesIsTerminal ==
    [][(currentStep = "recipes" /\ currentStep' /= "recipes")
           => last'.op = "resetApp"]_vars

\* C19: right after a result with ingredients and recipes is handled the step
\* is 'ingredients', and while the timeout of a result handled since the last
\* Reset is pending the step is not 'recipes'.
C19_RecipesOnlyAfterOwnTimer ==
    /\ (ResultHandled /\ ingredients /= <<>> /\ recipes /= <<>>)
           => currentStep = "ingredients"
    /\ (timers /= <<>> /\ timers[Len(timers)] = "live")
           => currentStep /= "recipes"

\* C20: analyzeImage without a file reports 'Please select an image first',
\* posts nothing, does not set loading, and leaves step, ingredients and
\* recipes as they were.
C20_NoFileSelected ==
    [][(AnalyzeImage /\ uploadedImage = NoFile)
           => /\ error' = NoFileMessage
              /\ last'.calls = <<"onError">>
              /\ inflight' = inflight
              /\ loading' = FALSE
              /\ currentStep' = currentStep
              /\ ingredients' = ingredients
              /\ recipes' = recipes]_vars

\* C20's case: Analyze was clicked on a preview whose file had been removed.
C20_Witness ==
    /\ last = Event("analyzeImage", <<"onError">>)
    /\ error = NoFileMessage
    /\ uploadedImage = NoFile
    /\ imagePreview /= NoPreview

----------------------------------------------------------------------------
(* Claims about what is on display, the busy flag and calls that overlap *)

UploadOps == {"onDrop", "reader.onload", "removeImage", "analyzeImage"}

\* C21: the application starts in step 'upload'; Start Over can be clicked
\* exactly when the step is not 'upload'; every handler of the upload
\* component runs in step 'upload' only, and in that step the component shows
\* its dropzone or, with a preview, its Remove and Analyze buttons.
C21_ControlsFollowStep ==
    /\ [](last.op = "init" => currentStep = "upload")
    /\ []((ENABLED ResetApp) <=> currentStep /= "upload")
    /\ [](currentStep = "upload"
              => (imagePreview = NoPreview \/ ENABLED RemoveImage))
    /\ [][last'.op \in UploadOps => currentStep = "upload"]_vars

\* C21's case: Start Over was clicked in a step other than 'upload' and the
\* upload component is back, with a timeout of the earlier result pending.
C21_Witness ==
    /\ last.op = "resetApp"
    /\ currentStep = "upload"
    /\ timers /= <<>>

\* C22: in the steps 'ingredients' and 'recipes' an ingredient can be added.
C22_EditingAvailable ==
    currentStep \in {"ingredients", "recipes"}
        => ENABLED (\E s \in CustomInputs : AddCustomIngredient(s))

\* C23: in step 'recipes' the recipe list is not empty.
C23_RecipesStepHasRecipes ==
    currentStep = "recipes" => recipes /= <<>>

\* C24: while the ingredient list component is displayed its own copy of the
\* list is the controller's list.
C24_CopyIsControllersList ==
    ListShown(Ctrl) => editableIngredients = ingredients

\* C25: loading is true exactly while a call awaits its outcome.
C25_BusyTracksInFlight ==
    (loading = TRUE) <=> (inflight > 0)

\* C26: an outcome delivered right after resetApp ran is the outcome of a call
\* posted before it, as no call was posted since; it changes neither the step
\* nor the ingredients, the recipes or the error.
C26_OutdatedCallHasNoEffect ==
    [][(last.op = "resetApp" /\ Delivered')
           => /\ currentStep' = currentStep
              /\ ingredients' = ingredients
              /\ recipes' = recipes
              /\ error' = error]_vars

\* C27: a preview on display is the preview of the selected file.
C27_PreviewIsOfSelectedFile ==
    imagePreview /= NoPreview
        => (uploadedImage /= NoFile /\ imagePreview = DataURL(uploadedImage))

====
